---- MODULE Spec2Model ----
(***************************************************************************)
(* Model of src/app.py: convert_file_to_text (extension dispatch, the four *)
(* leaf extractors, the recursive ZIP walk, the catch-all handler) and the *)
(* main() flow that uploads one file, converts it, previews and saves it.  *)
(*                                                                         *)
(* Text is a sequence of string tokens; string concatenation is \o.        *)
(* A file name is a sequence of tokens in which "/" and "." are the path   *)
(* separator and the extension separator and every other token is a run    *)
(* of ordinary characters.                                                 *)
(* File content is a record saying what the bytes really are, so that the  *)
(* name and the content vary independently.                                *)
(***************************************************************************)
EXTENDS Integers, Sequences, FiniteSets, TLC

\* ------------------------------------------------------------------ bounds
\* largest number of entries in the uploaded archive
MaxEntries == 2
\* deepest nesting of an archive inside the uploaded archive
MaxDepth == 1
\* largest number of cells in a generated spreadsheet row
MaxCells == 2

\* full_text[:1000]
PreviewChars == 1000

\* ------------------------------------------------------------ text helpers
Max(S) == CHOOSE x \in S : \A y \in S : y <= x

Min2(a, b) == IF a <= b THEN a ELSE b

RECURSIVE Join(_, _)
\* sep.join(parts) where every part is itself a text
Join(parts, sep) ==
  IF Len(parts) = 0 THEN <<>>
  ELSE IF Len(parts) = 1 THEN parts[1]
  ELSE parts[1] \o sep \o Join(Tail(parts), sep)

\* ------------------------------------------------------------- file names
\* p.rfind(ch): the last index holding ch, 0 when there is none
RFind(p, ch) ==
  LET I == {i \in 1..Len(p) : p[i] = ch}
  IN IF I = {} THEN 0 ELSE Max(I)

\* os.path.splitext(p): <<root, ext>>; a dot that only follows leading dots
\* of the last path component does not start an extension
splitext(p) ==
  LET sepIndex == RFind(p, "/")
      dotIndex == RFind(p, ".")
  IN IF dotIndex > sepIndex
        /\ \E k \in (sepIndex + 1)..(dotIndex - 1) : p[k] # "."
     THEN <<SubSeq(p, 1, dotIndex - 1), SubSeq(p, dotIndex, Len(p))>>
     ELSE <<p, <<>>>>

\* info.is_dir(): the entry's name ends with the path separator
is_dir(filename) == Len(filename) > 0 /\ filename[Len(filename)] = "/"

\* info.filename.startswith('__MACOSX')
startswith_MACOSX(filename) == Len(filename) > 0 /\ filename[1] = "__MACOSX"

\* the five extension literals of the dispatch chain
ExtDocx == <<".", "docx">>
ExtXlsx == <<".", "xlsx">>
ExtPptx == <<".", "pptx">>
ExtHtml == <<".", "html">>
ExtHtm == <<".", "htm">>
ExtZip == <<".", "zip">>

\* ------------------------------------------------------------ call results
\* a call either returns a text or raises an exception carrying a message;
\* calls is the record of the library calls and dispatches made, in order
Ok(text, calls) == [raised |-> FALSE, msg |-> "", text |-> text, calls |-> calls]

Raise(msg, calls) == [raised |-> TRUE, msg |-> msg, text |-> <<>>, calls |-> calls]

\* one recorded call: the function, the file name it was given, and for a
\* dispatch the text it returned
Ev(fn, file_name) == [fn |-> fn, name |-> file_name, ret |-> <<>>]

\* the containers the libraries can open as a ZIP package
IsZipContainer(file_content) == file_content.kind \in {"zip", "docx", "xlsx", "pptx"}

\* what a package reader reports for bytes that are not its format
BadPackageMsg(file_content) ==
  IF IsZipContainer(file_content) THEN "no item named [Content_Types].xml in the archive"
  ELSE "File is not a zip file"

\* -------------------------------------------------------------- Word
\* '\n'.join([para.text for para in doc.paragraphs])
ParagraphText(paras) == Join([i \in 1..Len(paras) |-> <<paras[i]>>], <<"\n">>)

ExtractDocx(file_content, file_name) ==
  LET calls == <<Ev("docx.Document", file_name)>>
  IN IF file_content.kind = "docx"
     THEN Ok(ParagraphText(file_content.paras), calls)
     ELSE Raise(BadPackageMsg(file_content), calls)

\* -------------------------------------------------------------- Excel
\* Python truthiness of a cell value (bool is an int: False is 0)
Truthy(v) ==
  CASE v.t = "none" -> FALSE
    [] v.t = "int" -> v.i # 0
    [] v.t = "bool" -> v.i # 0
    [] v.t = "str" -> v.s # ""

\* str(v)
Str(v) ==
  CASE v.t = "none" -> "None"
    [] v.t = "int" -> ToString(v.i)
    [] v.t = "bool" -> (IF v.i = 1 THEN "True" ELSE "False")
    [] v.t = "str" -> v.s

\* str(cell.value or '')
CellText(v) == IF Truthy(v) THEN Str(v) ELSE ""

\* '\t'.join([str(cell.value or '') for cell in row]) + '\n'
RowLine(row) == Join([i \in 1..Len(row) |-> <<CellText(row[i])>>], <<"\t">>) \o <<"\n">>

RECURSIVE RowsText(_)
\* for row in sheet.iter_rows(): output_text += ...
RowsText(rows) ==
  IF Len(rows) = 0 THEN <<>> ELSE RowLine(rows[1]) \o RowsText(Tail(rows))

RECURSIVE SheetsText(_)
\* for sheet in workbook.worksheets: ...
SheetsText(sheets) ==
  IF Len(sheets) = 0 THEN <<>>
  ELSE RowsText(sheets[1].rows) \o SheetsText(Tail(sheets))

ExtractXlsx(file_content, file_name) ==
  LET calls == <<Ev("openpyxl.load_workbook", file_name)>>
  IN IF file_content.kind = "xlsx"
     THEN Ok(SheetsText(file_content.sheets), calls)
     ELSE Raise(BadPackageMsg(file_content), calls)

\* -------------------------------------------------------------- PowerPoint
RECURSIVE ShapesText(_)
\* for shape in slide.shapes: if hasattr(shape, "text"): ... + '\n'
ShapesText(shapes) ==
  IF Len(shapes) = 0 THEN <<>>
  ELSE (IF shapes[1].has_text THEN <<shapes[1].text, "\n">> ELSE <<>>)
       \o ShapesText(Tail(shapes))

RECURSIVE SlidesText(_)
\* for slide in prs.slides: ...
SlidesText(slides) ==
  IF Len(slides) = 0 THEN <<>>
  ELSE ShapesText(slides[1]) \o SlidesText(Tail(slides))

ExtractPptx(file_content, file_name) ==
  LET calls == <<Ev("pptx.Presentation", file_name)>>
  IN IF file_content.kind = "pptx"
     THEN Ok(SlidesText(file_content.slides), calls)
     ELSE Raise(BadPackageMsg(file_content), calls)

\* -------------------------------------------------------------- HTML
\* markdownify of one markup token
MdToken(tok) ==
  CASE tok \in {"<b>", "</b>"} -> <<"**">>
    [] tok \in {"<p>", "</p>"} -> <<"\n\n">>
    [] OTHER -> <<tok>>

RECURSIVE md(_)
md(raw) == IF Len(raw) = 0 THEN <<>> ELSE MdToken(raw[1]) \o md(Tail(raw))

\* md(file_content.decode('utf-8', errors='ignore')): the decode never fails;
\* the HTML parser gives up on markup nested deeper than the interpreter's
\* recursion limit
ExtractHtml(file_content, file_name) ==
  LET calls == <<Ev("decode", file_name), Ev("markdownify", file_name)>>
  IN IF \E i \in 1..Len(file_content.raw) : file_content.raw[i] = "<deep>"
     THEN Raise("maximum recursion depth exceeded", calls)
     ELSE Ok(md(file_content.raw), calls)

\* -------------------------------------------------------------- dispatcher
\* f"--- Converted content from: {info.filename} ---\n"
Header(filename) == <<"--- Converted content from: ">> \o filename \o <<" ---\n">>

\* f"An error occurred while processing {file_name}: {str(e)}"
ErrorString(file_name, msg) ==
  <<"An error occurred while processing ">> \o file_name \o <<": ", msg>>

\* f"Unsupported file type: '{file_extension}'"
UnsupportedString(file_extension) ==
  <<"Unsupported file type: '">> \o file_extension \o <<"'">>

\* an else branch that falls back to decoding the bytes as text
UnsupportedDecode(file_content, file_name, file_extension) ==
  Ok(file_content.raw, <<Ev("decode", file_name)>>)

\* the else branch: no library is called and the content is not touched
Unsupported(file_content, file_name, file_extension) ==
  Ok(UnsupportedString(file_extension), <<>>)

\* z.open(info.filename): the archive looks the member up by name, and its
\* name table keeps the last entry recorded under a name
ZipOpen(entries, filename) ==
  entries[Max({j \in 1..Len(entries) : entries[j].filename = filename})]

\* the condition under which the loop converts an entry
NotSkipped(info) == ~is_dir(info.filename) /\ ~startswith_MACOSX(info.filename)

\* a handler that lets the exception through
except_Nothing(r, file_name) == r

\* except Exception as e: return the error string; otherwise return output_text
except_Exception(r, file_name) ==
  IF r.raised THEN Ok(ErrorString(file_name, r.msg), r.calls) ELSE r

RECURSIVE convert_file_to_text(_, _)
RECURSIVE ZipLoop(_, _, _, _)
\* for info in z.infolist(): ... from entry i on, with the text and the
\* calls accumulated so far; an exception leaves the loop at once
ZipLoop(entries, i, output_text, calls) ==
  IF i > Len(entries) THEN Ok(output_text, calls)
  ELSE LET info == entries[i]
       IN IF NotSkipped(info)
          THEN LET member == ZipOpen(entries, info.filename)
                   opened == calls \o <<Ev("z.open", info.filename)>>
               IN IF ~member.readable
                  THEN Raise("File is encrypted, password required for extraction", opened)
                  ELSE LET r == convert_file_to_text(member.content, info.filename)
                       IN IF r.raised
                          THEN Raise(r.msg, opened \o r.calls)
                          ELSE ZipLoop(entries, i + 1,
                                       output_text \o Header(info.filename)
                                                   \o r.text \o <<"\n\n">>,
                                       opened \o r.calls)
          ELSE ZipLoop(entries, i + 1, output_text, calls)

\* with zipfile.ZipFile(io.BytesIO(file_content)) as z: ...
ExtractZip(file_content, file_name) ==
  LET calls == <<Ev("zipfile.ZipFile", file_name)>>
  IN IF IsZipContainer(file_content)
     THEN ZipLoop(file_content.entries, 1, <<>>, calls)
     ELSE Raise("File is not a zip file", calls)

\* the if/elif chain inside the try block
TryBlock(file_content, file_name) ==
  LET file_extension == splitext(file_name)[2]
  IN IF file_extension = ExtDocx THEN ExtractDocx(file_content, file_name)
     ELSE IF file_extension = ExtXlsx THEN ExtractXlsx(file_content, file_name)
     ELSE IF file_extension = ExtPptx THEN ExtractPptx(file_content, file_name)
     ELSE IF file_extension \in {ExtHtml, ExtHtm} THEN ExtractHtml(file_content, file_name)
     ELSE IF file_extension = ExtZip THEN ExtractZip(file_content, file_name)
     ELSE Unsupported(file_content, file_name, file_extension)

convert_file_to_text(file_content, file_name) ==
  LET r == except_Exception(TryBlock(file_content, file_name), file_name)
  IN [r EXCEPT !.calls =
          <<[fn |-> "convert_file_to_text", name |-> file_name, ret |-> r.text]>>
          \o r.calls]

\* ------------------------------------------------------------------ inputs
\* sequences over S of length at most n
SeqUpTo(S, n) == UNION {[1..k -> S] : k \in 0..n}

Content(kind, paras, sheets, slides, raw, entries) ==
  [kind |-> kind, paras |-> paras, sheets |-> sheets, slides |-> slides,
   raw |-> raw, entries |-> entries]

Entry(filename, content, readable) ==
  [filename |-> filename, content |-> content, readable |-> readable]

None == [t |-> "none", i |-> 0, s |-> ""]

IntV(i) == [t |-> "int", i |-> i, s |-> ""]

BoolV(b) == [t |-> "bool", i |-> IF b THEN 1 ELSE 0, s |-> ""]

StrV(s) == [t |-> "str", i |-> 0, s |-> s]

CellValues == {None, IntV(0), IntV(7), BoolV(FALSE), BoolV(TRUE), StrV(""), StrV("x")}

Junk == Content("junk", <<>>, <<>>, <<>>, <<"\\x00">>, <<>>)

\* the XML part every Office package carries as a ZIP member
XmlPart == Entry(<<"[Content_Types]", ".", "xml">>, Junk, TRUE)

Docx1 == Content("docx", <<"Hello", "World">>, <<>>, <<>>, <<"PK">>, <<XmlPart>>)

Sheet2 == [title |-> "Sheet2", rows |-> <<<<StrV("a"), None, IntV(0)>>, <<BoolV(FALSE)>>>>]

Workbook(row) ==
  Content("xlsx", <<>>, <<[title |-> "Sheet1", rows |-> <<row>>], Sheet2>>, <<>>,
          <<"PK">>, <<XmlPart>>)

Xlsx1 == Workbook(<<StrV("x"), IntV(7)>>)

Pptx1 ==
  Content("pptx", <<>>, <<>>,
          <<<<[has_text |-> TRUE, text |-> "Title"], [has_text |-> FALSE, text |-> ""]>>,
            <<[has_text |-> TRUE, text |-> "Body"]>>>>,
          <<"PK">>, <<XmlPart>>)

Html1 == Content("html", <<>>, <<>>, <<>>, <<"<p>", "Hi", "</p>", "<b>", "x", "</b>">>, <<>>)

HtmlDeep == Content("html", <<>>, <<>>, <<>>, <<"<deep>">>, <<>>)

ZipOf(entries) == Content("zip", <<>>, <<>>, <<>>, <<"PK">>, entries)

NameDocx == <<"a", ".", "docx">>

NameXlsx == <<"b", ".", "xlsx">>

NameHtml == <<"p", ".", "html">>

NamePdf == <<"c", ".", "pdf">>

NameMac == <<"__MACOSX", "/", ".", "_foo">>

NameDir == <<"docs", "/">>

NameInnerZip == <<"in", ".", "zip">>

NameZip == <<"x", ".", "zip">>

\* entries of the uploaded archive that are not archives themselves
LeafEntries ==
  {Entry(NameDocx, Docx1, TRUE), Entry(NameDocx, Junk, TRUE),
   Entry(NameXlsx, Xlsx1, FALSE), Entry(NameMac, Junk, TRUE),
   Entry(NameDir, Junk, TRUE), Entry(NamePdf, Junk, TRUE)}

\* entries of a nested archive that are not archives themselves
CoreEntries == {Entry(NameHtml, Html1, TRUE), Entry(NameXlsx, Xlsx1, FALSE)}

RECURSIVE InnerZips(_)
\* the nested archives: up to two plain entries, or (d levels further down)
\* a nested archive followed by a plain entry
InnerZips(d) ==
  SeqUpTo(CoreEntries, 2) \cup
    (IF d = 0 THEN {}
     ELSE {<<Entry(NameInnerZip, ZipOf(z), TRUE), Entry(NameHtml, Html1, TRUE)>> :
             z \in InnerZips(d - 1)})

TopZips ==
  SeqUpTo(LeafEntries \cup
            (IF MaxDepth = 0 THEN {}
             ELSE {Entry(NameInnerZip, ZipOf(z), TRUE) : z \in InnerZips(MaxDepth - 1)}),
          MaxEntries)

\* file names a user uploads: each extension in both letter cases, no
\* extension, a leading-dot name, a dot only in a directory part
TopNames ==
  {NameDocx, <<"a", ".", "DOCX">>, NameXlsx, <<"b", ".", "XLSX">>,
   <<"d", ".", "pptx">>, <<"d", ".", "PPTX">>, NameHtml, <<"p", ".", "HTML">>,
   <<"p", ".", "htm">>, <<"p", ".", "Htm">>, NameZip, <<"x", ".", "ZIP">>,
   NamePdf, <<"README">>, <<".", "html">>, <<"v1", ".", "zip", "/", "notes">>,
   <<"a", ".", "docx", ".", "zip">>}

BasicContents ==
  {Docx1, Xlsx1, Pptx1, Html1, HtmlDeep, Junk,
   ZipOf(<<Entry(NameHtml, Html1, TRUE), Entry(NamePdf, Junk, TRUE)>>)}

Rows == UNION {[1..k -> CellValues] : k \in 1..MaxCells}

\* what files.upload() can hand to main()
Inputs ==
  {[name |-> n, content |-> c] : n \in TopNames, c \in BasicContents}
  \cup {[name |-> NameZip, content |-> ZipOf(z)] : z \in TopZips}
  \cup {[name |-> NameXlsx, content |-> Workbook(row)] : row \in Rows}

\* ------------------------------------------------------------------- state
\* where main() is: start, uploaded, converted, previewed, done (crashed:
\* an exception left it)
VARIABLE pc
\* the name of the uploaded file
VARIABLE file_name
\* the bytes of the uploaded file
VARIABLE file_content
\* the text convert_file_to_text returned to main()
VARIABLE full_text
\* the calls made during the conversion, in order
VARIABLE calls
\* the printed preview
VARIABLE preview
\* the name of the text file offered for download
VARIABLE output_filename

vars == <<pc, file_name, file_content, full_text, calls, preview, output_filename>>

Init ==
  /\ pc = "start"
  /\ file_name = <<>>
  /\ file_content = Junk
  /\ full_text = <<>>
  /\ calls = <<>>
  /\ preview = <<>>
  /\ output_filename = <<>>

\* uploaded = files.upload(); the first file's name and content are taken
Upload ==
  /\ pc = "start"
  /\ \E f \in Inputs :
       /\ file_name' = f.name
       /\ file_content' = f.content
  /\ pc' = "uploaded"
  /\ UNCHANGED <<full_text, calls, preview, output_filename>>

\* if not uploaded: ... return
NoUpload ==
  /\ pc = "start"
  /\ pc' = "done"
  /\ UNCHANGED <<file_name, file_content, full_text, calls, preview, output_filename>>

\* full_text = convert_file_to_text(file_content, file_name); an exception
\* leaving the call ends main()
Convert ==
  /\ pc = "uploaded"
  /\ LET r == convert_file_to_text(file_content, file_name)
     IN /\ pc' = IF r.raised THEN "crashed" ELSE "converted"
        /\ full_text' = r.text
        /\ calls' = r.calls
  /\ UNCHANGED <<file_name, file_content, preview, output_filename>>

\* print(full_text[:1000])
Preview ==
  /\ pc = "converted"
  /\ preview' = SubSeq(full_text, 1, Min2(Len(full_text), PreviewChars))
  /\ pc' = "previewed"
  /\ UNCHANGED <<file_name, file_content, full_text, calls, output_filename>>

\* output_filename = os.path.splitext(file_name)[0] + ".txt"; the text is
\* written there and offered for download
Download ==
  /\ pc = "previewed"
  /\ output_filename' = splitext(file_name)[1] \o <<".", "txt">>
  /\ pc' = "done"
  /\ UNCHANGED <<file_name, file_content, full_text, calls, preview>>

Next == Upload \/ NoUpload \/ Convert \/ Preview \/ Download

Spec == Init /\ [][Next]_vars

\* ------------------------------------------------------------- properties
\* main() has received the result of the conversion
Returned == pc \in {"converted", "previewed", "done"} /\ calls # <<>>

file_extension == splitext(file_name)[2]

SupportedExtensions == {ExtDocx, ExtXlsx, ExtPptx, ExtHtml, ExtHtm, ExtZip}

ExtractorCalls ==
  {"docx.Document", "openpyxl.load_workbook", "pptx.Presentation", "decode",
   "markdownify", "zipfile.ZipFile"}

\* sub occurs in t as a run of adjacent tokens
Contains(t, sub) ==
  \E k \in 0..(Len(t) - Len(sub)) : SubSeq(t, k + 1, k + Len(sub)) = sub

\* C1: convert_file_to_text never raises to its caller; when the selected
\* branch raises with message m the call returns exactly the error string
\* naming file_name and m, and otherwise it returns the branch's text.
C1_NeverRaises ==
  /\ pc # "crashed"
  /\ Returned =>
       LET r == TryBlock(file_content, file_name)
       IN full_text = IF r.raised THEN ErrorString(file_name, r.msg) ELSE r.text

\* an extractor raised and main() holds the error string
C1_Witness ==
  /\ Returned
  /\ TryBlock(file_content, file_name).raised
  /\ full_text = ErrorString(file_name, TryBlock(file_content, file_name).msg)

\* C7: a file name whose extension is not in the supported table gets the
\* message naming that extension as unsupported, and no extractor and no
\* decoding is run on its content, at top level and for archive entries.
C7_UnsupportedMessage ==
  Returned =>
    /\ calls[1].name = file_name /\ calls[1].ret = full_text
    /\ \A i \in 1..Len(calls) :
         LET ext == splitext(calls[i].name)[2]
         IN ext \notin SupportedExtensions =>
              /\ calls[i].fn \notin ExtractorCalls
              /\ calls[i].fn = "convert_file_to_text" =>
                   calls[i].ret = UnsupportedString(ext)

\* an entry of an archive had an unsupported extension
C7_Witness ==
  /\ Returned
  /\ \E i \in 2..Len(calls) :
       /\ calls[i].fn = "convert_file_to_text"
       /\ splitext(calls[i].name)[2] \notin SupportedExtensions
       /\ calls[i].ret = UnsupportedString(splitext(calls[i].name)[2])

\* ---- statements the code does not satisfy

\* the lowercase form of one name token
Lower(tok) ==
  CASE tok = "DOCX" -> "docx"
    [] tok = "XLSX" -> "xlsx"
    [] tok = "PPTX" -> "pptx"
    [] tok = "HTML" -> "html"
    [] tok = "Htm" -> "htm"
    [] tok = "ZIP" -> "zip"
    [] OTHER -> tok

LowerExt(ext) == [i \in 1..Len(ext) |-> Lower(ext[i])]

\* the first library call the table prescribes for an extension
TableRoute(ext) ==
  CASE ext = ExtDocx -> "docx.Document"
    [] ext = ExtXlsx -> "openpyxl.load_workbook"
    [] ext = ExtPptx -> "pptx.Presentation"
    [] ext \in {ExtHtml, ExtHtm} -> "decode"
    [] ext = ExtZip -> "zipfile.ZipFile"
    [] OTHER -> "none"

\* the first library call the dispatch actually made
ObservedRoute == IF Len(calls) >= 2 THEN calls[2].fn ELSE "none"

\* C2: the extractor is selected from the lowercase form of the extension,
\* so names differing only in the letter case of the extension get the same
\* extractor, whatever the content.
C2_LowercaseRouting == Returned => ObservedRoute = TableRoute(LowerExt(file_extension))

\* the top-level call walked an archive
ZipWalk == Returned /\ file_extension = ExtZip /\ IsZipContainer(file_content)

\* the non-skipped entries, in archive order
RECURSIVE Kept(_)
Kept(entries) ==
  IF Len(entries) = 0 THEN <<>>
  ELSE (IF NotSkipped(entries[1]) THEN <<entries[1]>> ELSE <<>>) \o Kept(Tail(entries))

\* C3: a failure on one entry (reading or extraction) never aborts the
\* archive: the header of every non-skipped entry is in the output, and the
\* header of every entry that can be read is followed by that entry's
\* converted text.
C3_EntryFailureIsolated ==
  ZipWalk =>
    \A i \in 1..Len(file_content.entries) :
      LET info == file_content.entries[i]
          member == ZipOpen(file_content.entries, info.filename)
      IN NotSkipped(info) =>
           Contains(full_text,
                    Header(info.filename) \o
                      (IF member.readable
                       THEN convert_file_to_text(member.content, info.filename).text
                       ELSE <<>>))

RECURSIVE Blocks(_)
\* one block per non-skipped entry: its header, then the dispatch of the
\* entry's own bytes under the entry's path
Blocks(entries) ==
  IF Len(entries) = 0 THEN <<>>
  ELSE LET info == entries[1]
       IN (IF NotSkipped(info)
           THEN Header(info.filename)
                \o convert_file_to_text(info.content, info.filename).text
                \o <<"\n\n">>
           ELSE <<>>) \o Blocks(Tail(entries))

\* C4: for a ZIP input the output is the concatenation, in archive order
\* over the non-skipped entries, of the entry's header followed by the
\* dispatch of that entry's own bytes.
C4_BlocksInArchiveOrder == ZipWalk => full_text = Blocks(file_content.entries)

\* the number of tokens of t equal to tok
Count(t, tok) == Cardinality({k \in 1..Len(t) : t[k] = tok})

IsZipEntry(info) ==
  splitext(info.filename)[2] = ExtZip /\ IsZipContainer(info.content)

RECURSIVE NumHeaders(_)
\* the number of non-skipped entries in an archive and the archives in it
NumHeaders(entries) ==
  IF Len(entries) = 0 THEN 0
  ELSE LET info == entries[1]
       IN (IF NotSkipped(info)
           THEN 1 + (IF IsZipEntry(info) THEN NumHeaders(info.content.entries) ELSE 0)
           ELSE 0) + NumHeaders(Tail(entries))

\* C5: directory entries and __MACOSX entries contribute no header and are
\* never dispatched, and every other entry contributes exactly one header.
C5_SkipsAndOneHeaderEach ==
  ZipWalk =>
    /\ \A i \in 1..Len(file_content.entries) :
         LET info == file_content.entries[i]
         IN ~NotSkipped(info) =>
              /\ ~Contains(full_text, Header(info.filename))
              /\ \A k \in 1..Len(calls) : calls[k].name # info.filename
    /\ Count(full_text, "--- Converted content from: ") = NumHeaders(file_content.entries)

\* the path ends in '.zip'
EndsInZip(filename) ==
  Len(filename) >= 2 /\ SubSeq(filename, Len(filename) - 1, Len(filename)) = ExtZip

RECURSIVE Walk(_)
\* depth-first, pre-order walk: each non-skipped entry's header, then for an
\* archive the walk of its entries and otherwise the dispatched text
Walk(entries) ==
  IF Len(entries) = 0 THEN <<>>
  ELSE LET info == entries[1]
       IN (IF NotSkipped(info)
           THEN Header(info.filename)
                \o (IF EndsInZip(info.filename) /\ IsZipContainer(info.content)
                    THEN Walk(info.content.entries)
                    ELSE convert_file_to_text(info.content, info.filename).text)
                \o <<"\n\n">>
           ELSE <<>>) \o Walk(Tail(entries))

\* C6: an entry whose path ends in '.zip' is extracted recursively: the
\* inner entries each appear under their own header, the whole inner block
\* directly after the outer header naming the inner archive and before the
\* header of the next outer entry.
C6_NestedArchiveWalk ==
  ZipWalk =>
    \A i \in 1..Len(file_content.entries) :
      LET info == file_content.entries[i]
          rest == Kept(SubSeq(file_content.entries, i + 1, Len(file_content.entries)))
      IN NotSkipped(info) /\ EndsInZip(info.filename) /\ IsZipContainer(info.content) =>
           Contains(full_text,
                    Header(info.filename) \o Walk(info.content.entries) \o <<"\n\n">>
                      \o (IF Len(rest) = 0 THEN <<>> ELSE Header(rest[1].filename)))

\* the top-level call read a workbook
XlsxRead == Returned /\ file_extension = ExtXlsx /\ file_content.kind = "xlsx"

\* the text of a stored value; only a missing value is the empty string
ValueText(v) == IF v.t = "none" THEN "" ELSE Str(v)

ValueLine(row) == Join([i \in 1..Len(row) |-> <<ValueText(row[i])>>], <<"\t">>) \o <<"\n">>

\* C8: for a well-formed .xlsx, every row of every sheet has a line with
\* the row's cell values joined by tabs in column order, and the lines of
\* each sheet come after a header line naming that sheet.
C8_RowsUnderSheetHeader ==
  XlsxRead =>
    \A n \in 1..Len(file_content.sheets) :
      LET sheet == file_content.sheets[n]
      IN \E h \in 1..Len(full_text) :
           /\ full_text[h] = sheet.title
           /\ \A m \in 1..Len(sheet.rows) :
                Contains(SubSeq(full_text, h + 1, Len(full_text)), ValueLine(sheet.rows[m]))

RECURSIVE ValueLines(_)
ValueLines(rows) ==
  IF Len(rows) = 0 THEN <<>> ELSE ValueLine(rows[1]) \o ValueLines(Tail(rows))

RECURSIVE AllValueLines(_)
AllValueLines(sheets) ==
  IF Len(sheets) = 0 THEN <<>>
  ELSE ValueLines(sheets[1].rows) \o AllValueLines(Tail(sheets))

\* C10: only an empty cell renders as the empty string; every stored value,
\* 0 and False included, renders as its text in its row's line.
C10_StoredValuesRendered == XlsxRead => full_text = AllValueLines(file_content.sheets)

====
